---- MODULE Spec2Model ----
(***************************************************************************)
(* Model of the write pipeline of hezof/log: the file sink (fileLogger),   *)
(* its rotation policy, the discard queue and the backpressure daemon.     *)
(* Line numbers in comments refer to src/unnamed/part_000 (the sink) and   *)
(* src/logger.go (records, pool, package wrappers).                        *)
(***************************************************************************)
EXTENDS Integers, Sequences, FiniteSets, TLC

\* ------------------------------------------------------------------ bounds
\* number of log calls made over a run
MaxCalls == 3
\* last instant of the wall clock (the clock counts hours)
MaxClock == 2
\* shape of the bounded calendar the clock walks through
HoursPerDay == 2
DaysPerMonth == 2
\* faults injected into the daemon, failed reopens, explicit Flush calls
MaxFaults == 1
MaxReopenFails == 1
MaxFlush == 1

\* ------------------------------------------------------- program constants
CycleOff == 0
CycleHourly == 1
CycleDaily == 2
CycleWeekly == 3
CycleMonthly == 4

LevelDebug == 0
LevelInfo == 1
LevelWarn == 2
LevelError == 3
LevelOff == 4

STDOUT == "stdout"
STDERR == "stderr"
LogPath == "app.log"
\* a path os.OpenFile cannot open: its directory does not exist
NoDirPath == "/no/such/dir/app.log"

\* strings.ToLower on the file names of the model
ToLower(path) ==
    CASE path \in {"STDOUT", "Stdout"} -> "stdout"
      [] path \in {"STDERR", "Stderr"} -> "stderr"
      [] OTHER -> path

\* ToFile (part_000:343-357): the handle for a path, or the error of
\* os.OpenFile (the empty path and NoDirPath cannot be opened)
OsStdout == "os.Stdout"
OsStderr == "os.Stderr"
OsFile == "file"
OpenError == "error"
ToFile(path) ==
    CASE ToLower(path) = STDOUT -> OsStdout
      [] ToLower(path) = STDERR -> OsStderr
      [] path \in {"", NoDirPath} -> OpenError
      [] OTHER -> OsFile

\* ---------------------------------------------------------------- threads
Producers == {"p1", "p2"}
Daemon == "daemon"
Threads == Producers \cup {Daemon}
Free == "free"
NoRec == [id |-> 0]

\* --------------------------------------------------------------- calendar
\* time.Now() read at instant t: the fields Header and rotating() take from it
Hour(t) == t % HoursPerDay
DayIndex(t) == t \div HoursPerDay
Day(t) == (DayIndex(t) % DaysPerMonth) + 1
Weekday(t) == DayIndex(t) % 7
Month(t) == ((DayIndex(t) \div DaysPerMonth) % 12) + 1
\* now.Format(".150405") with minutes and seconds at zero
Suffix(t) == Hour(t)

\* ------------------------------------------------------------ small helpers
\* A byte stream (a record buffer, the writer's buffer, the content of a
\* file) is kept as the sequence of its runs: [msg |-> m, len |-> n] stands for
\* n consecutive bytes of message m, n > 0, and two neighbouring runs belong
\* to different messages.
\* n bytes of message m
Bytes(m, n) == IF n = 0 THEN <<>> ELSE <<[msg |-> m, len |-> n]>>

RECURSIVE Size(_)
\* the number of bytes of a stream
Size(s) == IF s = <<>> THEN 0 ELSE Head(s).len + Size(Tail(s))

\* stream a followed by stream b
Cat(a, b) ==
    IF a = <<>> THEN b
    ELSE IF b = <<>> THEN a
    ELSE IF a[Len(a)].msg = b[1].msg
         THEN SubSeq(a, 1, Len(a) - 1)
                \o <<[msg |-> b[1].msg, len |-> a[Len(a)].len + b[1].len]>> \o Tail(b)
         ELSE a \o b

RECURSIVE Take(_, _)
\* the first k bytes of a stream
Take(s, k) ==
    IF k <= 0 \/ s = <<>> THEN <<>>
    ELSE IF Head(s).len <= k THEN Cat(<<Head(s)>>, Take(Tail(s), k - Head(s).len))
    ELSE <<[msg |-> Head(s).msg, len |-> k]>>

RECURSIVE Drop(_, _)
\* a stream without its first k bytes
Drop(s, k) ==
    IF k <= 0 \/ s = <<>> THEN s
    ELSE IF Head(s).len <= k THEN Drop(Tail(s), k - Head(s).len)
    ELSE <<[msg |-> Head(s).msg, len |-> Head(s).len - k]>> \o Tail(s)

RECURSIVE Concat(_)
\* the streams of a sequence, one after the other
Concat(s) == IF s = <<>> THEN <<>> ELSE Cat(Head(s), Concat(Tail(s)))

Range(s) == {s[i] : i \in 1..Len(s)}

\* ----------------------------------------------------------- bufio.Writer
\* w = [buf, err]; open: the wrapped handle is open. Result: the writer after
\* the call and the bytes that reached the file.
BufFlush(w, open) ==
    IF w.err THEN [buf |-> w.buf, err |-> TRUE, out |-> <<>>]
    ELSE IF w.buf = <<>> THEN [buf |-> <<>>, err |-> FALSE, out |-> <<>>]
    ELSE IF open THEN [buf |-> <<>>, err |-> FALSE, out |-> w.buf]
    ELSE [buf |-> w.buf, err |-> TRUE, out |-> <<>>]

RECURSIVE BufWrite(_, _, _, _)
BufWrite(w, open, p, size) ==
    IF Size(p) > size - Size(w.buf) /\ ~w.err
    THEN IF w.buf = <<>>
         THEN \* large write, empty buffer: written straight to the file
              IF open THEN [buf |-> <<>>, err |-> FALSE, out |-> p]
                      ELSE [buf |-> <<>>, err |-> TRUE, out |-> <<>>]
         ELSE LET n == size - Size(w.buf)
                  f == BufFlush([buf |-> Cat(w.buf, Take(p, n)), err |-> FALSE], open)
                  rest == BufWrite([buf |-> f.buf, err |-> f.err], open, Drop(p, n), size)
              IN [buf |-> rest.buf, err |-> rest.err, out |-> Cat(f.out, rest.out)]
    ELSE IF w.err THEN [buf |-> w.buf, err |-> TRUE, out |-> <<>>]
    ELSE [buf |-> Cat(w.buf, p), err |-> FALSE, out |-> <<>>]

\* ----------------------------------------------------------- configuration
\* values the configurations of the model are drawn from
RotBytes == 73
QueueCap == 2
BufLen == 111
RecLen == 37
RecFactor == 2
\* length of the longest formatted message
MaxLen == 36
\* the frames runtime.Caller reports: length of their file path, their line
PathLen == 5
LineNo == 7
\* frames of the program above the function that calls the log method
StackDepth == 1

defaultBufferLength == 262144
defaultRecordLength == 2048
defaultRecordFactor == 10

\* mergeDefault (part_000:54-77); BufferPeriod is the ticker period, which the
\* model leaves to the scheduler
mergeDefault(c) ==
    [c EXCEPT !.File = IF c.File = "" THEN STDOUT ELSE c.File,
              !.BufferLength = IF c.BufferLength <= 0 THEN defaultBufferLength ELSE c.BufferLength,
              !.RecordLength = IF c.RecordLength <= 0 THEN defaultRecordLength ELSE c.RecordLength,
              !.RecordFactor = IF c.RecordFactor <= 0 THEN defaultRecordFactor ELSE c.RecordFactor]

FileConfig(f, lv, rb, rc, k) ==
    [File |-> f, Level |-> lv, RotateBytes |-> rb, RotateCycle |-> rc,
     BufferLength |-> BufLen, RecordLength |-> RecLen, RecordFactor |-> RecFactor,
     DiscardThreshold |-> k]

\* direct sinks (DiscardThreshold = 0): size rotation, daily rotation, hourly
\* rotation
DirectConfigs ==
    {FileConfig(LogPath, LevelInfo, RotBytes, CycleOff, 0),
     FileConfig(LogPath, LevelInfo, 0, CycleDaily, 0),
     FileConfig(LogPath, LevelInfo, 0, CycleHourly, 0)}

\* discard sinks: a rotating file and the standard output
DiscardConfigs ==
    {FileConfig(LogPath, LevelInfo, RotBytes, CycleOff, QueueCap),
     FileConfig(STDOUT, LevelInfo, 0, CycleOff, QueueCap)}

\* lengths of the text fmt.Appendf formats: the empty message and the longest
MsgLens == {0, MaxLen}
\* the five log methods (part_000:139-188)
Methods == {"Debug", "Info", "Warn", "Error", "ErrorStack"}
\* the methods the producers of the rotation and queue models call
CallMethods == {"Debug", "Error"}

\* ------------------------------------------------------------------- state
VARIABLES
    cfg,          \* lgr.c after mergeDefault
    clock,        \* the wall clock time.Now() reads
    lgr,          \* file (handle), rotate, rotateMonth/Week/Day/Hour, rotateRemain, rotateSuffix
    writer,       \* lgr.writer: [buf, err]
    fdOpen,       \* the handle lgr.file is open
    active,       \* content of the file at cfg.File (or of the standard stream)
    activeExists, \* a file exists at cfg.File
    rotated,      \* rotated files in the order they were renamed: [name, data, by]
    mutex,        \* lgr.mutex: its holder, or Free
    discard,      \* lgr.discard: the buffered channel's content
    closed,       \* lgr.discard has been closed
    pc,           \* position of every producer and of the daemon
    cur,          \* the record each thread holds
    pool,         \* lgr.records.pool: the record objects it retains, [id, cap]
    nextId,       \* identity of the next record object pool.New makes
    calls,        \* records formatted so far; the next message is calls + 1
    closer,       \* position of the thread calling Close
    clFile,       \* the handle Close read from lgr.file
    flushCalls,   \* explicit Flush calls made so far
    faults,       \* faults injected into the daemon so far
    reopenFails,  \* reopens that failed so far
    daemonTasks,  \* daemon goroutines alive
    panicked,     \* producers whose log call ended in a panic
    errs,         \* "logger write error" reports on the diagnostic stream
    rollCount,    \* calls of rotating()
    prev,         \* calendar fields of the record WriteDirect last decided on, and the decision
    charged,      \* bytes of the records decided on without rollover since the last rollover
    acq,          \* record buffers in the order their WriteDirect acquired the mutex
    appended,     \* messages whose buffer writer.Write was called on without error
    failed,       \* messages whose buffer writer.Write was called on and returned an error
    accepted,     \* messages the discard queue accepted
    handed,       \* messages the daemon handed to WriteDirect
    dropped,      \* messages WriteDiscard dropped on a full queue
    atClose       \* messages the queue held when Close closed it

vars == <<cfg, clock, lgr, writer, fdOpen, active, activeExists, rotated, mutex,
          discard, closed, pc, cur, pool, nextId, calls, closer, clFile,
          flushCalls, faults, reopenFails, daemonTasks, panicked, errs,
          rollCount, prev, charged, acq, appended, failed, accepted, handed,
          dropped, atClose>>

fsVars == <<writer, fdOpen, active, activeExists, rotated, lgr>>
ghostRot == <<rollCount, prev, charged, reopenFails>>
envVars == <<cfg, clock>>

\* lgr.file is os.Stdout or os.Stderr (part_000:102, 119)
IsStd(c) == ToFile(c.File) \in {OsStdout, OsStderr}

\* NewFileLogger returned (nil, err): there is no sink
NoSink ==
    [file |-> 0, rotate |-> FALSE, rotateMonth |-> 0, rotateWeek |-> 0, rotateDay |-> 0,
     rotateHour |-> 0, rotateSuffix |-> 0, rotateRemain |-> 0]
DiscardMode == cfg.DiscardThreshold > 0

\* a constructor that sets up rotation on the standard streams too
NewFileLoggerAnyFile(c0, now) ==
    IF ToFile(c0.File) = OpenError THEN NoSink
    ELSE LET c == mergeDefault(c0)
             rot == c.RotateBytes > 0 \/ c.RotateCycle > 0
         IN [file |-> 1,
             rotate |-> rot,
             rotateMonth |-> IF rot THEN Month(now) ELSE 0,
             rotateWeek |-> IF rot THEN Weekday(now) ELSE 0,
             rotateDay |-> IF rot THEN Day(now) ELSE 0,
             rotateHour |-> IF rot THEN Hour(now) ELSE 0,
             rotateSuffix |-> IF rot THEN Suffix(now) ELSE 0,
             rotateRemain |-> IF rot THEN c.RotateBytes ELSE 0]

\* NewFileLogger (part_000:107-137) at instant `now`: the file is opened from
\* the configuration as given (109-112), before mergeDefault (114)
NewFileLogger(c0, now) ==
    IF ToFile(c0.File) = OpenError THEN NoSink
    ELSE LET c == mergeDefault(c0)
             rot == ToFile(c0.File) \notin {OsStdout, OsStderr}
                    /\ (c.RotateBytes > 0 \/ c.RotateCycle > 0)
         IN [file |-> 1,
             rotate |-> rot,
             rotateMonth |-> IF rot THEN Month(now) ELSE 0,
             rotateWeek |-> IF rot THEN Weekday(now) ELSE 0,
             rotateDay |-> IF rot THEN Day(now) ELSE 0,
             rotateHour |-> IF rot THEN Hour(now) ELSE 0,
             rotateSuffix |-> IF rot THEN Suffix(now) ELSE 0,
             rotateRemain |-> IF rot THEN c.RotateBytes ELSE 0]

\* the state after NewFileLogger(c) for a c of `configs`, in a directory where
\* the files of `files` (a set of sequences like `rotated`) already exist; when
\* the constructor fails there is no sink and nobody can call anything
InitFiles(configs, files) ==
    /\ \E c0 \in configs :
         /\ cfg = mergeDefault(c0)
         /\ lgr = NewFileLogger(c0, 0)
    /\ clock = 0
    /\ writer = [buf |-> <<>>, err |-> FALSE]
    /\ fdOpen = (lgr # NoSink)
    /\ active = <<>>
    /\ activeExists = (lgr # NoSink)
    /\ rotated \in files
    /\ mutex = Free
    /\ discard = <<>>
    /\ closed = FALSE
    /\ pc = [t \in Threads |->
               IF lgr = NoSink THEN "none"
               ELSE IF t = Daemon
               THEN (IF cfg.DiscardThreshold > 0 THEN "select" ELSE "none")
               ELSE "idle"]
    /\ cur = [t \in Threads |-> NoRec]
    /\ pool = {}
    /\ nextId = 1
    /\ calls = 0
    /\ closer = IF lgr = NoSink THEN "none" ELSE "idle"
    /\ clFile = 0
    /\ flushCalls = 0
    /\ faults = 0
    /\ reopenFails = 0
    /\ daemonTasks = IF lgr # NoSink /\ cfg.DiscardThreshold > 0 THEN 1 ELSE 0
    /\ panicked = {}
    /\ errs = 0
    /\ rollCount = 0
    /\ prev = [has |-> FALSE]
    /\ charged = 0
    /\ acq = <<>>
    /\ appended = {}
    /\ failed = {}
    /\ accepted = {}
    /\ handed = {}
    /\ dropped = {}
    /\ atClose = {}

InitWith(configs) == InitFiles(configs, {<<>>})

Init == InitWith(DirectConfigs)
InitDiscard == InitWith(DiscardConfigs)

\* ------------------------------------------------------------- record pool
\* createRecords (logger.go:252-263): the retention threshold
Threshold(c) == c.RecordLength * c.RecordFactor

\* the allocator's size classes up to 32768 bytes; larger blocks are whole
\* pages of 8192 bytes
SizeClasses ==
    {8, 16, 24, 32, 48, 64, 80, 96, 112, 128, 144, 160, 176, 192, 208, 224, 240,
     256, 288, 320, 352, 384, 416, 448, 480, 512, 576, 640, 704, 768, 896, 1024,
     1152, 1280, 1408, 1536, 1792, 2048, 2304, 2688, 3072, 3200, 3456, 4096,
     4864, 5376, 6144, 6528, 6784, 6912, 8192, 9472, 9728, 10240, 10880,
     12288, 13568, 14336, 16384, 18432, 19072, 20480, 21760, 24576, 27264,
     28672, 32768}
RoundUpSize(n) ==
    IF n <= 32768
    THEN CHOOSE k \in SizeClasses : k >= n /\ \A j \in SizeClasses : j >= n => k <= j
    ELSE ((n + 8191) \div 8192) * 8192

RECURSIVE GrowLoop(_, _)
\* capacities of 256 and more grow by a quarter (plus 192) until n fits
GrowLoop(c, n) == IF c >= n THEN c ELSE GrowLoop(c + ((c + 768) \div 4), n)

\* the capacity of r.buffer after one append brought its length to n, starting
\* from capacity cp: Go's append keeps the capacity when n fits and otherwise
\* takes n when n is more than twice cp, twice cp below 256, the quarter growth
\* above, rounded up to the allocator's size class
GrowCap(cp, n) ==
    IF n <= cp THEN cp
    ELSE RoundUpSize(IF n > 2 * cp THEN n
                     ELSE IF cp < 256 THEN 2 * cp
                     ELSE GrowLoop(cp, n))

\* a Put that retains every record
PutAlways(pl, r) == pl \cup {[id |-> r.id, cap |-> r.cap]}

\* records.Put (logger.go:276-280): the pool after releasing record r
Put(pl, r) == IF r.cap < Threshold(cfg) THEN pl \cup {[id |-> r.id, cap |-> r.cap]} ELSE pl

\* a Get that may also return an object a thread or the queue still holds
GetChoicesHeld ==
    pool \cup {[id |-> nextId, cap |-> cfg.RecordLength]}
         \cup {[id |-> cur[t].id, cap |-> cur[t].cap] : t \in {u \in Threads : cur[u] # NoRec}}
         \cup {[id |-> discard[i].id, cap |-> discard[i].cap] : i \in 1..Len(discard)}

\* what records.Get (logger.go:270-274) may return: a retained object, or a new
\* one from pool.New (sync.Pool gives no guarantee that a retained one is found)
GetChoices == pool \cup {[id |-> nextId, cap |-> cfg.RecordLength]}

\* the header Header appends: r.header[:25] for INFO and WARN, r.header[:26]
\* for the other levels (logger.go:163-202)
headerLength == 26
HeaderLen(lv) == IF lv \in {LevelInfo, LevelWarn} THEN headerLength - 1 ELSE headerLength

RECURSIVE Digits(_)
\* the decimal digits strconv.AppendInt appends for a line number
Digits(n) == IF n < 10 THEN 1 ELSE 1 + Digits(n \div 10)

skipBase == 2

\* a frame of the call stack: the length of its file path, its line, and
\* whether the path holds "/src/runtime/"
Frame(file, line, rt) == [file |-> file, line |-> line, runtime |-> rt]

\* the call stack of a producer inside a log method, as runtime.Caller numbers
\* it from Location and PrintStack (frame 0 being Location or PrintStack
\* itself): the log method, the function calling it, StackDepth frames of the
\* program above that one, and the frame of the runtime that started the
\* goroutine
CallStack ==
    <<Frame(PathLen, LineNo, FALSE), Frame(PathLen, LineNo, FALSE)>>
      \o [i \in 1..StackDepth |-> Frame(PathLen, LineNo, FALSE)]
      \o <<Frame(PathLen, LineNo, TRUE)>>

\* the lengths of the appends of Location(skip) (logger.go:206-218): the file
\* and line of frame `skip`, or "???" and 1 when the stack has no such frame,
\* as file, colon, line, " - "
Location(st, skip) ==
    IF skip <= Len(st) THEN <<st[skip].file, 1, Digits(st[skip].line), 3>>
                       ELSE <<3, 1, Digits(1), 3>>

RECURSIVE PrintStack(_, _)
\* the lengths of the appends of PrintStack(skip) (logger.go:231-250) over the
\* frames st, from frame 1 outwards: frames of the runtime are passed over,
\* then the first `skip` frames, and every other frame is appended as file,
\* colon, line, '|'
PrintStack(st, skip) ==
    IF st = <<>> THEN <<>>
    ELSE IF Head(st).runtime THEN PrintStack(Tail(st), skip)
    ELSE IF skip > 0 THEN PrintStack(Tail(st), skip - 1)
    ELSE <<Head(st).file, 1, Digits(Head(st).line), 1>> \o PrintStack(Tail(st), skip)

\* the level a log method tests and writes in the header (part_000:139-188):
\* ErrorStack logs at LevelError
MethodLevel(mth) ==
    CASE mth = "Debug" -> LevelDebug
      [] mth = "Info" -> LevelInfo
      [] mth = "Warn" -> LevelWarn
      [] OTHER -> LevelError

\* the lengths of the appends a log method makes on r.buffer, in order: the
\* header (logger.go:171-201), the location (214-217), the formatted message
\* of k bytes and the newline (226-227), and for ErrorStack the stack trace
\* (part_000:185)
Appends(mth, st, k) ==
    <<HeaderLen(MethodLevel(mth))>> \o Location(st, skipBase) \o <<k, 1>>
      \o (IF mth = "ErrorStack" THEN PrintStack(st, skipBase) ELSE <<>>)

RECURSIVE Sum(_)
Sum(s) == IF s = <<>> THEN 0 ELSE Head(s) + Sum(Tail(s))

RECURSIVE AppendAll(_, _, _)
\* the capacity of a buffer of capacity cp and length len after the appends of
\* the lengths `parts`, one after the other: an append that does not fit grows
\* the capacity the appends before it left
AppendAll(cp, len, parts) ==
    IF parts = <<>> THEN cp
    ELSE AppendAll(GrowCap(cp, len + Head(parts)), len + Head(parts), Tail(parts))

\* the length of the record log method mth formats for a message of k bytes,
\* called with the stack st
RecordLen(mth, st, k) == Sum(Appends(mth, st, k))

\* what a log method does to the object o that records.Get returned with an
\* empty buffer (part_000:141-144, 181-185; logger.go:128-250): the calendar
\* fields are taken from time.Now(), the header carries the level of the
\* method, the buffer holds the bytes of message m, and its capacity grew
\* append by append
Format(o, mth, m, st, k, now) ==
    [id |-> o.id, cap |-> AppendAll(o.cap, 0, Appends(mth, st, k)),
     level |-> MethodLevel(mth),
     msg |-> m, buf |-> Bytes(m, RecordLen(mth, st, k)),
     month |-> Month(now), week |-> Weekday(now), day |-> Day(now), hour |-> Hour(now)]

\* ------------------------------------------------------------ log methods
\* a level test that lets every call through
EmitsAll(level, lv) == TRUE

\* the level test of Debug/Info/Warn/Error/ErrorStack (part_000:139-188)
Emits(level, lv) == level <= lv

\* a producer calls log method mth with a message of n bytes, with the call
\* stack CallStack; at most max records are formatted over a run
LogN(p, mth, n, max) ==
    /\ pc[p] = "idle"
    /\ calls < max
    /\ IF Emits(cfg.Level, MethodLevel(mth))
       THEN \E o \in GetChoices :
              /\ calls' = calls + 1
              /\ cur' = [cur EXCEPT ![p] = Format(o, mth, calls + 1, CallStack, n, clock)]
              /\ pool' = pool \ {o}
              /\ nextId' = IF o.id = nextId THEN nextId + 1 ELSE nextId
              /\ pc' = [pc EXCEPT ![p] = "write"]
       ELSE UNCHANGED <<calls, cur, pool, nextId, pc>>
    /\ UNCHANGED <<envVars, fsVars, ghostRot, mutex, discard, closed, closer, clFile,
                   flushCalls, faults, daemonTasks, panicked, errs, acq, appended, failed,
                   accepted, handed, dropped, atClose>>

Log(p, mth, n) == LogN(p, mth, n, MaxCalls)

\* ------------------------------------------------------------ WriteDiscard
\* a send that takes the queue for full one record too late
HasRoomLate(q, k) == Len(q) <= k

\* the non-blocking send of WriteDiscard (part_000:317-324) finds room
HasRoom(q, k) == Len(q) < k

\* a send that puts the record in front of the records waiting
SendFront(q, r) == <<r>> \o q

\* the channel after the send lgr.discard <- r (part_000:319): channels are
\* first in, first out
Send(q, r) == Append(q, r)

WriteDiscard(p) ==
    /\ p \in Producers
    /\ pc[p] = "write"
    /\ DiscardMode
    /\ pc' = [pc EXCEPT ![p] = "idle"]
    /\ cur' = [cur EXCEPT ![p] = NoRec]
    /\ IF closed
       THEN \* send on a closed channel panics in the caller
            /\ panicked' = panicked \cup {p}
            /\ UNCHANGED <<discard, accepted, dropped>>
       ELSE IF HasRoom(discard, cfg.DiscardThreshold)
       THEN /\ discard' = Send(discard, cur[p])
            /\ accepted' = accepted \cup {cur[p].msg}
            /\ UNCHANGED <<panicked, dropped>>
       ELSE /\ dropped' = dropped \cup {cur[p].msg}
            /\ UNCHANGED <<discard, accepted, panicked>>
    /\ UNCHANGED <<envVars, fsVars, ghostRot, mutex, closed, pool, nextId, calls, closer,
                   clFile, flushCalls, faults, daemonTasks, errs, acq, appended, failed, handed,
                   atClose>>

\* ---------------------------------------------------------------- rotation
\* names of rotated files: <<suffix, n>> is <path>.<suffix>.<n>, and
\* <<suffix, -1>> is <path>.<suffix>
Names(rot) == {rot[i].name : i \in 1..Len(rot)}

RECURSIVE FirstFree(_, _, _)
FirstFree(names, sfx, count) ==
    IF <<sfx, count>> \notin names THEN count ELSE FirstFree(names, sfx, count + 1)

\* a rename target that ignores the files in the directory
RotateFileBare(names, sfx) == <<sfx, -1>>

\* the rename target rotating() computes (part_000:236-249)
RotateFile(names, sfx) ==
    IF <<sfx, -1>> \in names THEN <<sfx, FirstFree(names, sfx, 0)>> ELSE <<sfx, -1>>

\* rotating() (part_000:234-268) at instant `now`, on behalf of message m; ok:
\* the reopen of cfg.File succeeds
Rotating(ok, m, now) ==
    LET f == BufFlush(writer, fdOpen)
        data == Cat(active, f.out)
        moved == IF activeExists
                 THEN Append(rotated, [name |-> RotateFile(Names(rotated), lgr.rotateSuffix),
                                       data |-> data, by |-> m])
                 ELSE rotated
    IN IF ok
       THEN [lgr |-> [lgr EXCEPT !.file = lgr.file + 1,
                                 !.rotateMonth = Month(now),
                                 !.rotateWeek = Weekday(now),
                                 !.rotateDay = Day(now),
                                 !.rotateHour = Hour(now),
                                 !.rotateSuffix = Suffix(now),
                                 !.rotateRemain = cfg.RotateBytes],
             writer |-> [buf |-> <<>>, err |-> FALSE],
             fdOpen |-> TRUE, active |-> <<>>, activeExists |-> TRUE, rotated |-> moved]
       ELSE [lgr |-> lgr,
             writer |-> [buf |-> f.buf, err |-> f.err],
             fdOpen |-> FALSE, active |-> <<>>, activeExists |-> FALSE, rotated |-> moved]

\* a comparison of the cycle's own field only
CycleTriggerOwnField(cycle, r, l) ==
    CASE cycle = CycleMonthly -> r.month # l.rotateMonth
      [] cycle = CycleWeekly -> r.week # l.rotateWeek
      [] cycle = CycleDaily -> r.day # l.rotateDay
      [] cycle = CycleHourly -> r.hour # l.rotateHour
      [] OTHER -> FALSE

\* the calendar comparison of WriteDirect (part_000:278-301)
CycleTrigger(cycle, r, l) ==
    CASE cycle = CycleMonthly -> r.month # l.rotateMonth
      [] cycle = CycleWeekly -> r.month # l.rotateMonth \/ r.week # l.rotateWeek
      [] cycle = CycleDaily -> r.month # l.rotateMonth \/ r.week # l.rotateWeek
                                 \/ r.day # l.rotateDay
      [] cycle = CycleHourly -> r.month # l.rotateMonth \/ r.week # l.rotateWeek
                                  \/ r.day # l.rotateDay \/ r.hour # l.rotateHour
      [] OTHER -> FALSE

\* a size comparison that lets the budget go one byte below zero
SizeTriggerLate(remain) == remain < -1

\* the size comparison of WriteDirect (part_000:304)
SizeTrigger(remain) == remain < 0

\* a budget that counts records instead of their bytes
ChargeOne(remain, n) == remain - 1

\* the budget after charging the n bytes about to be written (part_000:303)
Charge(remain, n) == remain - n

\* ------------------------------------------------------------- WriteDirect
\* a Lock that does not wait for the holder
CanLockAlways(m) == TRUE

\* lgr.mutex.Lock() returns only when the mutex is free (part_000:274, 226)
CanLock(m) == m = Free

Home(t) == IF t = Daemon THEN "select" ELSE "idle"

\* lgr.mutex.Lock() and the rotation block (part_000:274-309); a producer gets
\* here only on a direct sink. Nothing another thread does between the Lock and
\* the rotation block reads the mutex, so the two are one step.
WD_Enter(t) ==
    /\ pc[t] = "write"
    /\ t \in Producers => ~DiscardMode
    /\ CanLock(mutex)
    /\ mutex' = t
    /\ acq' = Append(acq, cur[t].buf)
    /\ LET r == cur[t]
           calTrig == lgr.rotate /\ cfg.RotateCycle > CycleOff
                      /\ CycleTrigger(cfg.RotateCycle, r, lgr)
           sizeChk == lgr.rotate /\ ~calTrig /\ cfg.RotateBytes > 0
           remain == IF sizeChk THEN Charge(lgr.rotateRemain, Size(r.buf))
                                ELSE lgr.rotateRemain
           roll == calTrig \/ (sizeChk /\ SizeTrigger(remain))
       IN /\ prev' = [has |-> TRUE, month |-> r.month, week |-> r.week, day |-> r.day,
                      hour |-> r.hour, rolled |-> roll]
          /\ IF roll
             THEN \E ok \in (IF reopenFails < MaxReopenFails THEN BOOLEAN ELSE {TRUE}) :
                    LET n == Rotating(ok, r.msg, clock)
                    IN /\ lgr' = IF ok THEN n.lgr ELSE [lgr EXCEPT !.rotateRemain = remain]
                       /\ writer' = n.writer
                       /\ fdOpen' = n.fdOpen
                       /\ active' = n.active
                       /\ activeExists' = n.activeExists
                       /\ rotated' = n.rotated
                       /\ reopenFails' = IF ok THEN reopenFails ELSE reopenFails + 1
                       /\ rollCount' = rollCount + 1
                       /\ charged' = 0
             ELSE /\ lgr' = [lgr EXCEPT !.rotateRemain = remain]
                  /\ charged' = charged + Size(r.buf)
                  /\ UNCHANGED <<writer, fdOpen, active, activeExists, rotated,
                                 reopenFails, rollCount>>
    /\ pc' = [pc EXCEPT ![t] = "wd_append"]
    /\ UNCHANGED <<envVars, discard, closed, cur, pool, nextId, calls, closer,
                   clFile, flushCalls, faults, daemonTasks, panicked, errs,
                   appended, failed, accepted, handed, dropped, atClose>>

\* __write__ (part_000:310-315), then the deferred Unlock (275), which runs
\* before the deferred records.Put
WD_Append(t) ==
    /\ pc[t] = "wd_append"
    /\ LET w == BufWrite(writer, fdOpen, cur[t].buf, cfg.BufferLength)
       IN /\ writer' = [buf |-> w.buf, err |-> w.err]
          /\ active' = Cat(active, w.out)
          /\ errs' = IF w.err THEN errs + 1 ELSE errs
          /\ appended' = IF w.err THEN appended ELSE appended \cup {cur[t].msg}
          /\ failed' = IF w.err THEN failed \cup {cur[t].msg} ELSE failed
    /\ mutex' = Free
    /\ pc' = [pc EXCEPT ![t] = "wd_put"]
    /\ UNCHANGED <<envVars, lgr, fdOpen, activeExists, rotated, ghostRot, discard, closed,
                   cur, pool, nextId, calls, closer, clFile, flushCalls, faults,
                   daemonTasks, panicked, acq, accepted, handed, dropped, atClose>>

\* the deferred records.Put (part_000:272), with the mutex already released;
\* WriteDirect returns
WD_Put(t) ==
    /\ pc[t] = "wd_put"
    /\ pool' = Put(pool, cur[t])
    /\ cur' = [cur EXCEPT ![t] = NoRec]
    /\ pc' = [pc EXCEPT ![t] = Home(t)]
    /\ UNCHANGED <<envVars, fsVars, ghostRot, mutex, discard, closed, nextId, calls,
                   closer, clFile, flushCalls, faults, daemonTasks, panicked, errs, acq,
                   appended, failed, accepted, handed, dropped, atClose>>

\* ------------------------------------------------------------------- Flush
\* a producer calls Flush (logger.go:9, part_000:225)
FlushCall(p) ==
    /\ p \in Producers
    /\ pc[p] = "idle"
    /\ flushCalls < MaxFlush
    /\ flushCalls' = flushCalls + 1
    /\ pc' = [pc EXCEPT ![p] = "fl_lock"]
    /\ UNCHANGED <<envVars, fsVars, ghostRot, mutex, discard, closed, cur, pool, nextId,
                   calls, closer, clFile, faults, daemonTasks, panicked, errs, acq,
                   appended, failed, accepted, handed, dropped, atClose>>

\* Flush (part_000:225-232): Lock, writer.Flush(), file.Sync() and the deferred
\* Unlock, one step once the mutex is free; Sync changes nothing the model observes
FL_Do(t) ==
    /\ pc[t] = "fl_lock"
    /\ CanLock(mutex)
    /\ LET f == BufFlush(writer, fdOpen)
       IN /\ writer' = [buf |-> f.buf, err |-> f.err]
          /\ active' = Cat(active, f.out)
    /\ pc' = [pc EXCEPT ![t] = Home(t)]
    /\ UNCHANGED <<envVars, lgr, fdOpen, activeExists, rotated, ghostRot, mutex, discard,
                   closed, cur, pool, nextId, calls, closer, clFile, flushCalls, faults,
                   daemonTasks, panicked, errs, acq, appended, failed, accepted, handed, dropped, atClose>>

\* ------------------------------------------------------------------ daemon
\* case rc, ok := <-lgr.discard with ok (part_000:213-217)
DaemonRecv ==
    /\ pc[Daemon] = "select"
    /\ discard # <<>>
    /\ cur' = [cur EXCEPT ![Daemon] = Head(discard)]
    /\ discard' = Tail(discard)
    /\ handed' = handed \cup {Head(discard).msg}
    /\ pc' = [pc EXCEPT ![Daemon] = "write"]
    /\ UNCHANGED <<envVars, fsVars, ghostRot, mutex, closed, pool, nextId, calls, closer,
                   clFile, flushCalls, faults, daemonTasks, panicked, errs, acq,
                   appended, failed, accepted, dropped, atClose>>

\* the receive reports a closed and drained channel: protectDaemon returns
\* os.ErrProcessDone and daemon returns (part_000:193-194, 214-216)
DaemonDone ==
    /\ pc[Daemon] = "select"
    /\ closed
    /\ discard = <<>>
    /\ pc' = [pc EXCEPT ![Daemon] = "done"]
    /\ daemonTasks' = daemonTasks - 1
    /\ UNCHANGED <<envVars, fsVars, ghostRot, mutex, discard, closed, cur, pool, nextId,
                   calls, closer, clFile, flushCalls, faults, panicked, errs, acq,
                   appended, failed, accepted, handed, dropped, atClose>>

\* a ticker case that does not call Flush
TickSkipsFlush == "select"

\* where the ticker case takes the daemon: into lgr.Flush() (part_000:218-219)
TickTarget == "fl_lock"

\* case <-ticker.C (part_000:218-219)
DaemonTick ==
    /\ pc[Daemon] = "select"
    /\ pc' = [pc EXCEPT ![Daemon] = TickTarget]
    /\ UNCHANGED <<envVars, fsVars, ghostRot, mutex, discard, closed, cur, pool, nextId,
                   calls, closer, clFile, flushCalls, faults, daemonTasks, panicked,
                   errs, acq, appended, failed, accepted, handed, dropped, atClose>>

\* a daemon that returns after a recovered panic
FaultEndsDaemon == "done"

\* a deferred Unlock that does not run during a panic
FaultKeepsLock(m) == m

\* where the daemon goes after a recovered panic: protectDaemon returns nil,
\* daemon reports it and calls protectDaemon again (part_000:191-198, 202-206)
AfterFault == "select"

\* the mutex after the deferred Unlock of WriteDirect and Flush ran during a
\* panic (part_000:275, 227)
FaultUnlock(m) == Free

\* a panic inside the daemon's WriteDirect (before or after the rotation block)
\* or Flush, with the mutex held: the deferred Unlock runs; out of Flush the
\* recover of protectDaemon follows, out of WriteDirect the deferred
\* records.Put is still to run
DaemonFault ==
    /\ \/ pc[Daemon] = "wd_append"
       \/ pc[Daemon] \in {"write", "fl_lock"} /\ CanLock(mutex)
    /\ faults < MaxFaults
    /\ faults' = faults + 1
    /\ mutex' = FaultUnlock(mutex)
    /\ pc' = [pc EXCEPT ![Daemon] = IF pc[Daemon] = "fl_lock" THEN AfterFault ELSE "wd_unwind"]
    /\ daemonTasks' = IF pc[Daemon] = "fl_lock" /\ AfterFault = "done"
                      THEN daemonTasks - 1 ELSE daemonTasks
    /\ UNCHANGED <<envVars, fsVars, ghostRot, discard, closed, cur, pool, nextId, calls,
                   closer, clFile, flushCalls, panicked, errs, acq, appended, failed, accepted,
                   handed, dropped, atClose>>

\* the panic goes on unwinding WriteDirect: the deferred records.Put
\* (part_000:272), then the recover of protectDaemon (202-206)
DaemonRecover ==
    /\ pc[Daemon] = "wd_unwind"
    /\ pool' = Put(pool, cur[Daemon])
    /\ cur' = [cur EXCEPT ![Daemon] = NoRec]
    /\ pc' = [pc EXCEPT ![Daemon] = AfterFault]
    /\ daemonTasks' = IF AfterFault = "done" THEN daemonTasks - 1 ELSE daemonTasks
    /\ UNCHANGED <<envVars, fsVars, ghostRot, mutex, discard, closed, nextId, calls,
                   closer, clFile, flushCalls, faults, panicked, errs, acq, appended, failed,
                   accepted, handed, dropped, atClose>>

\* ------------------------------------------------------------------- Close
\* Close, first statement: close(lgr.discard) when the sink has a queue
\* (part_000:98-101)
CloseQueue ==
    /\ closer = "idle"
    /\ closed' = (closed \/ DiscardMode)
    /\ closer' = "cl_read"
    /\ atClose' = IF DiscardMode THEN {discard[i].msg : i \in 1..Len(discard)} ELSE atClose
    /\ UNCHANGED <<envVars, fsVars, ghostRot, mutex, discard, pc, cur, pool, nextId, calls,
                   clFile, flushCalls, faults, daemonTasks, panicked, errs, acq, appended, failed,
                   accepted, handed, dropped>>

\* Close reads lgr.file (part_000:102-103) without the mutex, at any moment
\* after the queue was closed: it gets the handle the sink holds at that
\* moment, which a rollover in between may have replaced
CloseRead ==
    /\ closer = "cl_read"
    /\ clFile' = lgr.file
    /\ closer' = "cl_file"
    /\ UNCHANGED <<envVars, fsVars, ghostRot, mutex, discard, closed, pc, cur, pool, nextId,
                   calls, flushCalls, faults, daemonTasks, panicked, errs, acq, appended, failed,
                   accepted, handed, dropped, atClose>>

\* lgr.file.Close() on the handle read, unless the file is a standard stream
\* (part_000:102-104); closing a handle rotating() already closed changes
\* nothing
CloseFile ==
    /\ closer = "cl_file"
    /\ fdOpen' = IF ~IsStd(cfg) /\ clFile = lgr.file THEN FALSE ELSE fdOpen
    /\ closer' = "closed"
    /\ UNCHANGED <<envVars, lgr, writer, active, activeExists, rotated, ghostRot, mutex,
                   discard, closed, pc, cur, pool, nextId, calls, clFile, flushCalls,
                   faults, daemonTasks, panicked, errs, acq, appended, failed, accepted, handed, dropped, atClose>>

\* ------------------------------------------------------------- environment
Tick ==
    /\ clock < MaxClock
    /\ clock' = clock + 1
    /\ UNCHANGED <<cfg, fsVars, ghostRot, mutex, discard, closed, pc, cur, pool, nextId,
                   calls, closer, clFile, flushCalls, faults, daemonTasks, panicked,
                   errs, acq, appended, failed, accepted, handed, dropped, atClose>>

\* ----------------------------------------------------------- specification
\* a direct sink: producers, Flush and Close callers, and the clock
Next ==
    \/ \E p \in Producers, mth \in CallMethods, n \in MsgLens : Log(p, mth, n)
    \/ \E p \in Producers : WD_Enter(p)
    \/ \E p \in Producers : WD_Append(p)
    \/ \E p \in Producers : WD_Put(p)
    \/ \E p \in Producers : FlushCall(p)
    \/ \E p \in Producers : FL_Do(p)
    \/ CloseQueue
    \/ CloseRead
    \/ CloseFile
    \/ Tick

Spec == Init /\ [][Next]_vars

\* a discard sink: producers, the daemon, Flush and Close callers; the run
\* takes place within one hour of the clock
NextDiscard ==
    \/ \E p \in Producers, mth \in CallMethods, n \in MsgLens : Log(p, mth, n)
    \/ \E p \in Producers : WriteDiscard(p)
    \/ WD_Enter(Daemon)
    \/ WD_Append(Daemon)
    \/ WD_Put(Daemon)
    \/ \E p \in Producers : FlushCall(p)
    \/ \E t \in Threads : FL_Do(t)
    \/ DaemonRecv
    \/ DaemonDone
    \/ DaemonTick
    \/ DaemonFault
    \/ DaemonRecover
    \/ CloseQueue
    \/ CloseRead
    \/ CloseFile

SpecDiscard == InitDiscard /\ [][NextDiscard]_vars

\* ================================================================== claims
\* the logical destination stream: the rotated files in rotation order, the
\* active file, and the bytes the buffered writer still holds
RECURSIVE RotatedData(_)
RotatedData(rot) == IF rot = <<>> THEN <<>> ELSE Cat(Head(rot).data, RotatedData(Tail(rot)))
Dest == Cat(RotatedData(rotated), Cat(active, writer.buf))
\* the same in the next state
DestNext == Cat(RotatedData(rotated'), Cat(active', writer'.buf))

\* steps of the handlers, told by the positions they connect
EnterStep(t) == pc[t] = "write" /\ pc'[t] = "wd_append"
AppendStep(t) == pc[t] = "wd_append" /\ pc'[t] = "wd_put"
\* the release of the record at the end of WriteDirect, on its return or while
\* a panic unwinds it
PutStep(t) ==
    \/ pc[t] = "wd_put" /\ pc'[t] = Home(t)
    \/ t = Daemon /\ pc[t] = "wd_unwind" /\ pc'[t] # "wd_unwind"
DiscardStep(p) == pc[p] = "write" /\ pc'[p] = "idle"

\* ---------------------------------------------------------------------- C1
C1_Bound == Len(discard) <= cfg.DiscardThreshold
C1_NeverBlocks == \A p \in Producers : pc[p] = "write" => ENABLED WriteDiscard(p)
C1_Step ==
    \A p \in Producers :
        DiscardStep(p) /\ ~closed =>
            /\ p \notin panicked'
            /\ IF Len(discard) < cfg.DiscardThreshold
               THEN discard' = Append(discard, cur[p])
               ELSE discard' = discard /\ cur[p].msg \in dropped'

\* C1: on a discard sink whose queue is open, WriteDiscard is always enabled for
\* a producer that holds a formatted record (it never waits for the daemon), it
\* completes in one step, it enqueues the record when the queue holds fewer
\* than K records and otherwise drops it leaving the queue unchanged, no panic
\* reaches the caller, and the queue never holds more than K records.
C1_WriteDiscardNeverBlocks == [](C1_Bound /\ C1_NeverBlocks) /\ [][C1_Step]_vars

\* a record was dropped on a full queue while the daemon had not taken a step
C1_Witness ==
    /\ dropped # {}
    /\ Len(discard) = cfg.DiscardThreshold
    /\ ~closed
    /\ handed = {}
    /\ pc[Daemon] = "select"
    /\ panicked = {}

\* ---------------------------------------------------------------------- C2
SizeOnly == lgr.rotate /\ cfg.RotateCycle = CycleOff /\ cfg.RotateBytes > 0
Msgs(bytes) == {bytes[i].msg : i \in 1..Len(bytes)}

\* no Close has closed the handle and no reopen has failed
Healthy == closer # "closed" /\ reopenFails = 0
\* bytes appended to the active file since it was created: those written to
\* it and those the buffered writer holds for it. While no write is between
\* its rotation block and its append, these are the bytes of the records
\* written since the last rollover (or since construction).
ActiveBytes == Size(active) + Size(writer.buf)

C2_Step ==
    \A t \in Threads :
        (EnterStep(t) /\ SizeOnly /\ Healthy
           /\ ActiveBytes + Size(cur[t].buf) > cfg.RotateBytes) =>
            /\ rollCount' = rollCount + 1
            /\ cur[t].msg \notin Msgs(DestNext)
            /\ reopenFails' = reopenFails =>
                 /\ lgr'.rotateRemain = cfg.RotateBytes
                 /\ active' = <<>>
                 /\ writer'.buf = <<>>

C2_TriggerNotInRotated ==
    \A i \in 1..Len(rotated) : rotated[i].by \notin Msgs(rotated[i].data)

\* C2 as stated: on a file sink with size rotation only whose handle is in
\* order, a direct write whose record makes the bytes written since the last
\* rollover (or since construction) exceed RotateBytes performs a rollover
\* before the record is appended anywhere, the record never is in the file
\* that rollover rotated away, and when the reopen succeeded the budget is
\* RotateBytes and the new active file is empty.
C2_RotationBySize == []C2_TriggerNotInRotated /\ [][C2_Step]_vars

\* ---------------------------------------------------------------------- C3
\* the scenario: RotateBytes = 100, calendar rotation off, a 64-byte write
\* buffer, one producer writing five records of 30 bytes; Flush calls and
\* clock ticks fall anywhere between the steps
ScenarioConfig == [FileConfig(LogPath, LevelInfo, 100, CycleOff, 0) EXCEPT !.BufferLength = 64]
InitScenario == InitWith({ScenarioConfig})
\* a record made for the purpose, as a test of the package makes one:
\* &record{buffer: make([]byte, n)}, holding n bytes of message m; its
\* calendar fields are zero
NewRecord(i, m, n) ==
    [id |-> i, cap |-> n, level |-> LevelDebug, msg |-> m, buf |-> Bytes(m, n),
     month |-> 0, week |-> 0, day |-> 0, hour |-> 0]

\* the caller of the scenario makes the next of its max records of n bytes,
\* to hand it to WriteDirect
Direct(p, n, max) ==
    /\ pc[p] = "idle"
    /\ calls < max
    /\ calls' = calls + 1
    /\ cur' = [cur EXCEPT ![p] = NewRecord(nextId, calls + 1, n)]
    /\ nextId' = nextId + 1
    /\ pc' = [pc EXCEPT ![p] = "write"]
    /\ UNCHANGED <<envVars, fsVars, ghostRot, mutex, discard, closed, pool, closer, clFile,
                   flushCalls, faults, daemonTasks, panicked, errs, acq, appended, failed,
                   accepted, handed, dropped, atClose>>

NextScenario ==
    \/ Direct("p1", 30, 5)
    \/ WD_Enter("p1")
    \/ WD_Append("p1")
    \/ WD_Put("p1")
    \/ FlushCall("p1")
    \/ FL_Do("p1")
    \/ Tick
SpecScenario == InitScenario /\ [][NextScenario]_vars

RECURSIVE Records(_, _, _)
\* the bytes of records from..to, each of n bytes
Records(from, to, n) ==
    IF from > to THEN <<>> ELSE Cat(Bytes(from, n), Records(from + 1, to, n))

ScenarioDone == calls = 5 /\ pc["p1"] = "idle" /\ appended = 1..5 /\ reopenFails = 0

\* C3 as stated: after the five writes there was exactly one rollover, the
\* rotated file holds records 1..4 and the active file holds record 5 only.
C3_AsStated ==
    ScenarioDone =>
        /\ rollCount = 1
        /\ Len(rotated) = 1
        /\ rotated[1].data = Records(1, 4, 30)
        /\ Cat(active, writer.buf) = Records(5, 5, 30)

\* C3 amended: after the five writes there was exactly one rollover, performed
\* by the fourth write before its append; the rotated file holds records 1..3
\* and the active file (with the bytes still buffered for it) records 4 and 5;
\* the budget of the new file was charged with record 5 only and is 70.
C3_Amended ==
    ScenarioDone =>
        /\ rollCount = 1
        /\ Len(rotated) = 1
        /\ rotated[1].by = 4
        /\ rotated[1].data = Records(1, 3, 30)
        /\ Cat(active, writer.buf) = Records(4, 5, 30)
        /\ lgr.rotateRemain = 70

\* the five writes are done and the reopen of the one rollover succeeded
C3_Witness == ScenarioDone /\ rollCount = 1 /\ Len(rotated) = 1

\* ---------------------------------------------------------------------- C4
DailyOnly == lgr.rotate /\ cfg.RotateCycle = CycleDaily /\ cfg.RotateBytes = 0

\* C4 as stated: on a file sink with daily rotation only (and every reopen
\* succeeding), a direct write whose record carries another day-of-month than
\* the record written before it performs exactly one rollover, and one whose
\* record carries the same day performs none.
C4_DailyRollover ==
    [][\A t \in Threads :
          (EnterStep(t) /\ DailyOnly /\ prev.has /\ reopenFails' = 0) =>
              IF cur[t].day # prev.day
              THEN rollCount' = rollCount + 1
              ELSE rollCount' = rollCount]_vars

\* ---------------------------------------------------------------------- C5
CycleOnly == lgr.rotate /\ cfg.RotateCycle > CycleOff /\ cfg.RotateBytes = 0
SameFields(r, q) ==
    r.month = q.month /\ r.week = q.week /\ r.day = q.day /\ r.hour = q.hour

\* C5 as stated: on a file sink with calendar rotation only (and every reopen
\* succeeding), once the write of a record performed a rollover, the write of
\* the next record performs none when that record carries the same captured
\* month, weekday, day and hour.
C5_StableUnderDelay ==
    [][\A t \in Threads :
          (EnterStep(t) /\ CycleOnly /\ prev.has /\ prev.rolled /\ reopenFails' = 0
             /\ SameFields(cur[t], prev)) =>
              rollCount' = rollCount]_vars

\* ---------------------------------------------------------------------- C9
\* the operations that are at a step reading or writing lgr.file, lgr.writer
\* or the rotation bookkeeping: a WriteDirect between its rotation block and
\* its append, and a Close between its read of lgr.file and file.Close()
Accessing ==
    {t \in Threads : pc[t] = "wd_append"}
    \cup (IF closer = "cl_file" THEN {"closer"} ELSE {})

\* C9 as stated: at most one operation is accessing the handle, the writer or
\* the rotation bookkeeping, and it holds the mutex.
C9_MutexGuardsAll ==
    /\ Cardinality(Accessing) <= 1
    /\ \A a \in Accessing : mutex = a

\* --------------------------------------------------------------------- C10
InFlight == \E t \in Threads : pc[t] = "wd_append"
Front(q) == SubSeq(q, 1, Len(q) - 1)

C10_Order == Healthy => Dest = Concat(IF InFlight THEN Front(acq) ELSE acq)
C10_Append ==
    \A t \in Threads :
        AppendStep(t) /\ errs' = errs =>
            DestNext = Cat(Dest, cur[t].buf)
C10_Enter ==
    \A t \in Threads :
        EnterStep(t) /\ Healthy' =>
            DestNext = Dest

\* C10: a direct write that reports no error extends the destination stream
\* (rotated files, active file, buffered bytes) by exactly the record's buffer;
\* the rotation block adds no byte to the stream, whether it rolls over or
\* not; and as long as the handle was not closed and no reopen failed the
\* stream is the concatenation of the whole buffers of the completed writes in
\* the order their writers acquired the mutex.
C10_WholeRecordsInLockOrder == []C10_Order /\ [][C10_Append /\ C10_Enter]_vars

\* two producers wrote one record each, the second having waited for the
\* mutex, and a rollover moved bytes to a rotated file
C10_Witness ==
    /\ Healthy
    /\ Len(acq) >= 2
    /\ ~InFlight
    /\ rotated # <<>>
    /\ \E i, j \in 1..Len(acq) : i # j /\ acq[i] # acq[j] /\ Size(acq[i]) > 1
    /\ Dest = Concat(acq)

\* ------------------------------------------------------- fair scheduling
\* The daemon goroutine is scheduled: a step of it that stays possible is
\* taken. Its select takes every ready case again and again (Go picks among
\* the ready cases at random), hence the strong fairness of its three cases.
FairDaemon ==
    /\ WF_vars(WD_Enter(Daemon))
    /\ WF_vars(WD_Append(Daemon))
    /\ WF_vars(WD_Put(Daemon))
    /\ WF_vars(DaemonRecover)
    /\ WF_vars(FL_Do(Daemon))
    /\ SF_vars(DaemonRecv)
    /\ SF_vars(DaemonTick)
    /\ SF_vars(DaemonDone)

\* a discard sink on the standard output or on a rotating file that is never
\* closed, whose daemon never faults and whose producers never call Flush
InitLive == InitWith(DiscardConfigs)
NextLive ==
    \/ \E p \in Producers, mth \in CallMethods, n \in MsgLens : Log(p, mth, n)
    \/ \E p \in Producers : WriteDiscard(p)
    \/ WD_Enter(Daemon)
    \/ WD_Append(Daemon)
    \/ WD_Put(Daemon)
    \/ FL_Do(Daemon)
    \/ DaemonRecv
    \/ DaemonTick
SpecLive == InitLive /\ [][NextLive]_vars /\ FairDaemon

\* a discard sink on a rotating file, with Close, daemon faults and failing
\* reopens; every message has the longest length, so that every second write
\* rolls over and overflows the write buffer
InitFair == InitWith({FileConfig(LogPath, LevelInfo, RotBytes, CycleOff, QueueCap)})
NextFair ==
    \/ \E p \in Producers, mth \in CallMethods : Log(p, mth, MaxLen)
    \/ \E p \in Producers : WriteDiscard(p)
    \/ WD_Enter(Daemon)
    \/ WD_Append(Daemon)
    \/ WD_Put(Daemon)
    \/ FL_Do(Daemon)
    \/ DaemonRecv
    \/ DaemonDone
    \/ DaemonTick
    \/ DaemonFault
    \/ DaemonRecover
    \/ CloseQueue
    \/ CloseRead
    \/ CloseFile
SpecFair == InitFair /\ [][NextFair]_vars /\ FairDaemon

\* ---------------------------------------------------------------------- C6
AllMsgs == 1..MaxCalls
Flushed == Msgs(Cat(RotatedData(rotated), active))

\* C6: on an open discard sink whose daemon is scheduled fairly and does not
\* fault, and as long as no reopen fails, every record the queue accepted is
\* eventually appended to the buffered writer by the daemon's WriteDirect, and
\* every byte the buffered writer holds eventually reaches the destination
\* without any Flush call by a producer.
C6_DrainedAndFlushed ==
    \A m \in AllMsgs :
        /\ (m \in accepted) ~> (m \in appended \/ reopenFails > 0)
        /\ (m \in Msgs(writer.buf)) ~> (m \in Flushed \/ reopenFails > 0)

\* a record went through the queue and the daemon's write, and a tick of the
\* daemon's timer flushed it to the destination
C6_Witness ==
    /\ reopenFails = 0
    /\ rollCount = 0
    /\ \E m \in accepted : m \in appended /\ m \in Msgs(active)
    /\ writer.buf = <<>>

\* ---------------------------------------------------------------------- C7
C7_DoneOnlyWhenClosed ==
    pc[Daemon] = "done" =>
        closed /\ discard = <<>> /\ atClose \subseteq handed /\ accepted \subseteq handed

\* C7: the daemon has returned only if the queue was closed, and then every
\* record the queue held at the Close (every record it ever accepted) was
\* handed to WriteDirect; once the queue is closed the daemon, scheduled
\* fairly, eventually returns.
C7_TerminatesExactlyOnClose ==
    []C7_DoneOnlyWhenClosed /\ (closed ~> pc[Daemon] = "done")

\* the daemon returned after a Close that found records in the queue
C7_Witness == pc[Daemon] = "done" /\ atClose # {} /\ atClose \subseteq handed

\* ---------------------------------------------------------------------- C8
FaultStep == faults' = faults + 1
QueueMsgs == {discard[i].msg : i \in 1..Len(discard)}

C8_Recover ==
    /\ FaultStep =>
         /\ mutex' = Free
         /\ pc'[Daemon] = IF pc[Daemon] = "fl_lock" THEN "select" ELSE "wd_unwind"
         /\ daemonTasks' = daemonTasks
         /\ discard' = discard
    /\ (pc[Daemon] = "wd_unwind" /\ pc'[Daemon] # "wd_unwind") =>
         /\ pc'[Daemon] = "select"
         /\ mutex' = mutex
         /\ daemonTasks' = daemonTasks
         /\ discard' = discard
C8_OneDaemon == daemonTasks <= 1 /\ (pc[Daemon] = "done" => closed)

\* C8: a fault in the daemon's WriteDirect or Flush leaves the mutex free,
\* the daemon back at its select and the queue untouched; there is never more
\* than one daemon and it returns only on a closed queue; and after a fault
\* every record in the queue is still handed to WriteDirect and, while the
\* queue stays open, the timer still fires into Flush.
C8_FaultRecovery ==
    /\ []C8_OneDaemon
    /\ [][C8_Recover]_vars
    /\ \A m \in AllMsgs : (faults > 0 /\ m \in QueueMsgs) ~> (m \in handed)
    /\ (faults > 0 /\ ~closed) ~> (pc[Daemon] = "fl_lock" \/ closed)

\* after a fault, the daemon is again inside WriteDirect with the mutex held,
\* on an open queue
C8_Witness ==
    faults > 0 /\ pc[Daemon] = "wd_append" /\ mutex = Daemon /\ ~closed

\* --------------------------------------------------------------------- C11
\* a directory that already holds files with the names rotating() may pick:
\* <path>.0, <path>.0.0 and <path>.0.2, in every combination
OldFile(nm) == [name |-> nm, data |-> <<>>, by |-> 0]
PreFiles ==
    {b \o z \o t : b \in {<<>>, <<OldFile(<<0, -1>>)>>},
                   z \in {<<>>, <<OldFile(<<0, 0>>)>>},
                   t \in {<<>>, <<OldFile(<<0, 2>>)>>}}

\* a direct sink with hourly rotation started in such a directory
InitNaming == InitFiles({FileConfig(LogPath, LevelInfo, 0, CycleHourly, 0)}, PreFiles)
NextNaming ==
    \/ \E p \in Producers, mth \in CallMethods, n \in MsgLens : Log(p, mth, n)
    \/ \E p \in Producers : WD_Enter(p)
    \/ \E p \in Producers : WD_Append(p)
    \/ \E p \in Producers : WD_Put(p)
    \/ Tick
SpecNaming == InitNaming /\ [][NextNaming]_vars

RenameStep == rollCount' = rollCount + 1 /\ activeExists
C11_Target ==
    RenameStep =>
        LET names == Names(rotated)
            s == lgr.rotateSuffix
            target == rotated'[Len(rotated')].name
        IN /\ Len(rotated') = Len(rotated) + 1
           /\ target \notin names
           /\ target[1] = s
           /\ IF <<s, -1>> \notin names
              THEN target[2] = -1
              ELSE /\ target[2] >= 0
                   /\ \A k \in 0..(target[2] - 1) : <<s, k>> \in names
C11_Kept == SubSeq(rotated', 1, Len(rotated)) = rotated
C11_Distinct == Cardinality(Names(rotated)) = Len(rotated)

\* C11: a rollover renames the active file to <path>.<suffix> when no file has
\* that name, and otherwise to <path>.<suffix>.<N> with N the smallest
\* non-negative integer whose name is free; the target never is an existing
\* file, every file rotated or present before stays as it was, and no two
\* files of the directory share a name.
C11_CollisionSafeNaming == []C11_Distinct /\ [][C11_Target /\ C11_Kept]_vars

\* <path>.0, <path>.0.0 and <path>.0.2 existed, and two rollovers with the
\* suffix 0 took the names <path>.0.1 and <path>.0.3
C11_Witness ==
    /\ Len(rotated) = 5
    /\ rotated[4].name = <<0, 1>> /\ rotated[4].by # 0
    /\ rotated[5].name = <<0, 3>> /\ rotated[5].by # 0

\* --------------------------------------------------------------------- C12
PoolIds(pl) == {r.id : r \in pl}
\* record objects somebody holds: the pool, a thread, the queue
KnownIds ==
    PoolIds(pool) \cup {cur[t].id : t \in {u \in Threads : cur[u] # NoRec}}
                  \cup {discard[i].id : i \in 1..Len(discard)}
\* record objects that were made and that nobody holds any more
Rejected == {i \in 1..(nextId - 1) : i \notin KnownIds}

C12_PoolBound == \A r \in pool : r.cap < Threshold(cfg)
C12_Fresh == \A i \in KnownIds : i < nextId
C12_Release ==
    \A t \in Threads :
        PutStep(t) =>
            IF cur[t].cap < Threshold(cfg)
            THEN [id |-> cur[t].id, cap |-> cur[t].cap] \in pool'
            ELSE cur[t].id \notin PoolIds(pool') /\ pool' = pool
C12_Acquire ==
    \A p \in Producers :
        (pc[p] = "idle" /\ pc'[p] = "write") =>
            LET i == cur'[p].id
            IN /\ i \notin Rejected
               /\ \/ \E r \in pool : r.id = i /\ r.cap < Threshold(cfg)
                  \/ i = nextId /\ nextId' = nextId + 1

\* C12: every record object the pool holds has a buffer capacity below
\* RecordLength * RecordFactor; a release keeps the object exactly when its
\* capacity is below that threshold; and an acquire returns either an object
\* the pool holds (so one below the threshold) or a newly made one, never an
\* object that was released at or above the threshold.
C12_PoolRetentionBound ==
    [](C12_PoolBound /\ C12_Fresh) /\ [][C12_Release /\ C12_Acquire]_vars

\* one object was rejected on release for its capacity, another is retained,
\* and a producer has acquired an object after that
C12_Witness ==
    /\ Rejected # {}
    /\ pool # {}
    /\ \E p \in Producers : pc[p] = "write" /\ \A i \in Rejected : cur[p].id > i

\* --------------------------------------------------------------------- C13
\* the levels a sink is configured with
Levels == LevelDebug..LevelOff

\* direct and discard sinks without rotation, at every minimum level, and two
\* configurations whose file cannot be opened (the constructor fails); the
\* producers call each of the five methods, with a message of MaxLen bytes
InitLevels ==
    InitWith({FileConfig(LogPath, lv, 0, CycleOff, k) : lv \in Levels, k \in {0, QueueCap}}
             \cup {FileConfig(f, LevelDebug, 0, CycleOff, 0) : f \in {"", NoDirPath}})
NextLevels ==
    \/ \E p \in Producers, mth \in Methods : Log(p, mth, MaxLen)
    \/ \E p \in Producers : WriteDiscard(p)
    \/ \E t \in Threads : WD_Enter(t)
    \/ \E t \in Threads : WD_Append(t)
    \/ \E t \in Threads : WD_Put(t)
    \/ DaemonRecv
    \/ DaemonTick
    \/ FL_Do(Daemon)
SpecLevels == InitLevels /\ [][NextLevels]_vars

HeldRecords ==
    {cur[t] : t \in {u \in Threads : cur[u] # NoRec}} \cup Range(discard)

\* the level each method stands for: Debug 0, Info 1, Warn 2, Error and
\* ErrorStack 3
C13_LevelOf(mth) ==
    IF mth = "Debug" THEN 0 ELSE IF mth = "Info" THEN 1 ELSE IF mth = "Warn" THEN 2 ELSE 3
\* the bytes of the record of a call from line LineNo of a file whose path has
\* PathLen bytes: header, "file:line - ", message and newline, and for
\* ErrorStack one "file:line|" for every program frame above the caller
C13_Bytes(mth, n) ==
    (IF mth \in {"Info", "Warn"} THEN 25 ELSE 26) + PathLen + 1 + Digits(LineNo) + 3 + n + 1
      + (IF mth = "ErrorStack" THEN StackDepth * (PathLen + 1 + Digits(LineNo) + 1) ELSE 0)

C13_Suppressed ==
    \A p \in Producers, mth \in Methods :
        (Log(p, mth, MaxLen) /\ C13_LevelOf(mth) < cfg.Level) => UNCHANGED vars
C13_Emitted ==
    \A p \in Producers, mth \in Methods :
        (Log(p, mth, MaxLen) /\ C13_LevelOf(mth) >= cfg.Level) =>
            /\ calls' = calls + 1
            /\ pc'[p] = "write"
            /\ cur'[p].level = C13_LevelOf(mth) /\ cur'[p].msg = calls'
            /\ Size(cur'[p].buf) = C13_Bytes(mth, MaxLen)
            /\ UNCHANGED <<discard, active, writer, rotated>>
\* a producer holding a formatted record is at the write entry point: the
\* non-blocking send on a discard sink, WriteDirect's Lock on a direct one
C13_Handed ==
    \A p \in Producers :
        pc[p] = "write" =>
            /\ cur[p] # NoRec
            /\ IF DiscardMode THEN ENABLED WriteDiscard(p)
                              ELSE mutex = Free => ENABLED WD_Enter(p)
C13_NoneBelow ==
    /\ \A r \in HeldRecords : r.level >= cfg.Level
    /\ Msgs(Dest) \subseteq 1..calls
    /\ cfg.Level = LevelOff =>
         calls = 0 /\ nextId = 1 /\ HeldRecords = {} /\ Dest = <<>>

\* C13: a call of Debug, Info, Warn, Error or ErrorStack below the sink's
\* minimum level changes nothing: no record is acquired, nothing is enqueued
\* and no byte is appended; a call at or above it formats exactly one record
\* (for ErrorStack with its stack trace) and takes it to the write entry
\* point; no record below the minimum level ever exists, every byte of the
\* destination belongs to an emitted record, and a sink at LevelOff never
\* acquires, enqueues or appends anything.
C13_ExactSuppression == [](C13_NoneBelow /\ C13_Handed) /\ [][C13_Suppressed /\ C13_Emitted]_vars

\* a sink at LevelError that took three calls: every byte of the destination
\* comes from a call of Error or ErrorStack, and it holds a record of each
C13_Witness ==
    /\ cfg.Level = LevelError
    /\ calls = MaxCalls
    /\ HeldRecords = {}
    /\ Msgs(Dest) = 1..MaxCalls
    /\ \E i, j \in 1..Len(Dest) :
         /\ Dest[i].len = C13_Bytes("Error", MaxLen)
         /\ Dest[j].len = C13_Bytes("ErrorStack", MaxLen)

\* --------------------------------------------------------------------- C14
\* the sink holds the handle a rollover closed and could not replace
StaleHandle == reopenFails > 0 /\ ~fdOpen /\ ~activeExists

C14_FailedReopen ==
    \A t \in Threads :
        (EnterStep(t) /\ reopenFails' = reopenFails + 1) =>
            /\ pc'[t] = "wd_append"
            /\ ~fdOpen'
            /\ lgr'.file = lgr.file
            /\ lgr'.rotateSuffix = lgr.rotateSuffix
            /\ lgr'.rotateHour = lgr.rotateHour /\ lgr'.rotateDay = lgr.rotateDay
C14_WriteReports ==
    \A t \in Threads : (AppendStep(t) /\ StaleHandle) => errs' = errs + 1

\* C14 as stated: a rollover whose reopen fails goes on to the write with the
\* closed handle and the old bookkeeping, and every direct write that appends
\* while the sink holds that closed handle reports a write error.
C14_StaleWritesReport == [][C14_FailedReopen /\ C14_WriteReports]_vars

\* --------------------------------------------------------------------- C15
\* the messages of a byte stream, in the order their bytes come: one entry
\* for every run of bytes of the same message
MsgSeq(bytes) == [i \in 1..Len(bytes) |-> bytes[i].msg]

RECURSIVE IsSubSeq(_, _)
\* a is b with some elements left out
IsSubSeq(a, b) ==
    IF a = <<>> THEN TRUE
    ELSE IF b = <<>> THEN FALSE
    ELSE IF Head(a) = Head(b) THEN IsSubSeq(Tail(a), Tail(b))
    ELSE IsSubSeq(a, Tail(b))

\* the accepted records on their way: those in the destination, the one the
\* daemon took from the queue, and those waiting in the queue
DaemonMsg == IF pc[Daemon] \in {"write", "wd_append"} THEN <<cur[Daemon].msg>> ELSE <<>>
Pipeline == MsgSeq(Dest) \o DaemonMsg \o [i \in 1..Len(discard) |-> discard[i].msg]
\* the same in the next state
PipelineNext ==
    MsgSeq(DestNext)
      \o (IF pc'[Daemon] \in {"write", "wd_append"} THEN <<cur'[Daemon].msg>> ELSE <<>>)
      \o [i \in 1..Len(discard') |-> discard'[i].msg]

C15_NoDuplicate ==
    DiscardMode => \A i, j \in 1..Len(Pipeline) : Pipeline[i] = Pipeline[j] => i = j
C15_Step ==
    DiscardMode =>
        \/ \E p \in Producers :
              /\ DiscardStep(p) /\ cur[p].msg \in accepted'
              /\ PipelineNext = Pipeline \o <<cur[p].msg>>
        \/ /\ accepted' = accepted
           /\ IsSubSeq(PipelineNext, Pipeline)

\* C15: on a discard sink, the accepted records that are in the destination,
\* in the daemon's hands or in the queue form one sequence; an accepted record
\* joins it at the end, and no other step (a drop, a flush, a rollover, a
\* daemon fault, a Close) changes the order of its elements: the destination
\* holds accepted records in the order the queue accepted them.
C15_DiscardFifo == []C15_NoDuplicate /\ [][C15_Step]_vars

\* the second record formatted was accepted first, and both reached the
\* destination in the order of their acceptance
C15_Witness ==
    /\ DiscardMode
    /\ accepted = {1, 2}
    /\ dropped = {} /\ faults = 0
    /\ discard = <<>> /\ cur[Daemon] = NoRec
    /\ MsgSeq(Dest) = <<2, 1>>

\* --------------------------------------------------------------------- C16
\* values of the calendar fields of a record and of the sink's snapshot
FieldMonths == {1, 2}
FieldWeekdays == {0, 1}
FieldDays == {1, 2}
FieldHours == {0, 1}
Cycles == CycleOff..CycleMonthly
\* the bytes charged to a budget of rb bytes by the records written before:
\* none, or any records of the model's lengths that fit
UsedBudgets(rb) ==
    {u \in {a * RecordLen("Error", CallStack, 0)
              + b * RecordLen("Error", CallStack, MaxLen) : a, b \in 0..2} : u <= rb}

\* a direct sink on a file or on a standard stream, of any cycle, with or
\* without size rotation, whose snapshot was taken at any instant and whose
\* byte budget is partly used, and a producer about to write a record formatted
\* at any instant
InitTable ==
    /\ cfg \in {mergeDefault(FileConfig(f, LevelInfo, rb, c, 0)) :
                  f \in {LogPath, STDOUT, "Stderr"}, rb \in {0, RotBytes}, c \in Cycles}
    /\ clock = 0
    /\ \E m \in FieldMonths, w \in FieldWeekdays, d \in FieldDays, h \in FieldHours,
          used \in UsedBudgets(cfg.RotateBytes) :
         /\ lgr = IF NewFileLogger(cfg, 0).rotate
                  THEN [NewFileLogger(cfg, 0) EXCEPT !.rotateMonth = m, !.rotateWeek = w,
                                                     !.rotateDay = d, !.rotateHour = h,
                                                     !.rotateRemain = cfg.RotateBytes - used]
                  ELSE NewFileLogger(cfg, 0)
         /\ charged = IF NewFileLogger(cfg, 0).rotate THEN used ELSE 0
    /\ writer = [buf |-> <<>>, err |-> FALSE]
    /\ fdOpen = TRUE
    /\ active = <<>>
    /\ activeExists = TRUE
    /\ rotated = <<>>
    /\ mutex = Free
    /\ discard = <<>>
    /\ closed = FALSE
    /\ pc = [t \in Threads |-> IF t = Daemon THEN "none" ELSE IF t = "p1" THEN "write" ELSE "idle"]
    /\ \E m \in FieldMonths, w \in FieldWeekdays, d \in FieldDays, h \in FieldHours,
          n \in MsgLens :
         cur = [t \in Threads |->
                  IF t = "p1"
                  THEN [Format([id |-> 1, cap |-> cfg.RecordLength], "Error", 1,
                               CallStack, n, 0)
                          EXCEPT !.month = m, !.week = w, !.day = d, !.hour = h]
                  ELSE NoRec]
    /\ pool = {}
    /\ nextId = 2
    /\ calls = 1
    /\ closer = "idle"
    /\ clFile = 0
    /\ flushCalls = 0
    /\ faults = 0
    /\ reopenFails = 0
    /\ daemonTasks = 0
    /\ panicked = {}
    /\ errs = 0
    /\ rollCount = 0
    /\ prev = [has |-> FALSE]
    /\ acq = <<>>
    /\ appended = {}
    /\ failed = {}
    /\ accepted = {}
    /\ handed = {}
    /\ dropped = {}
    /\ atClose = {}
NextTable ==
    \/ \E p \in Producers : WD_Enter(p)
    \/ \E p \in Producers : WD_Append(p)
    \/ \E p \in Producers : WD_Put(p)
SpecTable == InitTable /\ [][NextTable]_vars

\* the table: the number of fields, counted from the month down (month,
\* weekday, day, hour), a cycle compares
Depth(cycle) ==
    CASE cycle = CycleMonthly -> 1
      [] cycle = CycleWeekly -> 2
      [] cycle = CycleDaily -> 3
      [] cycle = CycleHourly -> 4
      [] OTHER -> 0
FieldsOf(x, l) ==
    IF l THEN <<x.rotateMonth, x.rotateWeek, x.rotateDay, x.rotateHour>>
         ELSE <<x.month, x.week, x.day, x.hour>>
TableSays(cycle, r, l) ==
    \E k \in 1..Depth(cycle) : FieldsOf(r, FALSE)[k] # FieldsOf(l, TRUE)[k]

C16_Step ==
    \A t \in Threads :
        EnterStep(t) =>
            LET says == ~IsStd(cfg) /\ TableSays(cfg.RotateCycle, cur[t], lgr)
                rolls == rollCount' = rollCount + 1
            IN /\ says => rolls /\ lgr'.rotateRemain \in {lgr.rotateRemain, cfg.RotateBytes}
               /\ (rolls /\ ~says) =>
                    /\ cfg.RotateBytes > 0
                    /\ lgr.rotateRemain - Size(cur[t].buf) < 0
               /\ ~rolls => rollCount' = rollCount

\* C16: a direct write performs a calendar rollover exactly when the table
\* says so for the sink's cycle: monthly on another month; weekly on another
\* month or weekday; daily on another month, weekday or day; hourly on another
\* month, weekday, day or hour; with the cycle off never (a rollover without
\* the table saying so is one the byte budget asked for).
C16_CalendarTable == [][C16_Step]_vars

\* a weekly sink rolled over for a record of the same month and another
\* weekday (the reopen failed, so the snapshot is still the one compared)
C16_Witness ==
    /\ cfg.RotateCycle = CycleWeekly /\ cfg.RotateBytes = 0
    /\ prev.has /\ prev.rolled /\ reopenFails = 1
    /\ prev.month = lgr.rotateMonth /\ prev.week # lgr.rotateWeek
    /\ prev.day = lgr.rotateDay /\ prev.hour = lgr.rotateHour

\* --------------------------------------------------------------------- C17
C17_Enter ==
    \A t \in Threads :
        EnterStep(t) =>
            LET r == cur[t]
                n == Size(r.buf)
                cal == ~IsStd(cfg) /\ TableSays(cfg.RotateCycle, r, lgr)
                sized == ~IsStd(cfg) /\ cfg.RotateBytes > 0
                rolls == rollCount' = rollCount + 1
                reopened == reopenFails' = reopenFails
            IN /\ rolls \/ rollCount' = rollCount
               /\ Len(rotated') <= Len(rotated) + 1
               \* the calendar check comes first and leaves the budget alone
               /\ cal => /\ rolls
                         /\ lgr'.rotateRemain = IF reopened THEN cfg.RotateBytes
                                                            ELSE lgr.rotateRemain
               \* otherwise the budget is charged, and a rollover is the budget's
               /\ (~cal /\ sized) =>
                    /\ rolls <=> lgr.rotateRemain - n < 0
                    /\ lgr'.rotateRemain = IF rolls /\ reopened THEN cfg.RotateBytes
                                                                ELSE lgr.rotateRemain - n
               /\ (~cal /\ ~sized) => ~rolls /\ lgr' = lgr
               \* the rollover is over and the record is not appended yet
               /\ r.msg \notin Msgs(DestNext)
               /\ pc'[t] = "wd_append"
C17_Append ==
    \A t \in Threads :
        AppendStep(t) => rollCount' = rollCount /\ rotated' = rotated /\ lgr' = lgr
C17_NoneOnStd == IsStd(cfg) => rollCount = 0 /\ rotated = <<>> /\ ~lgr.rotate

\* C17: a direct write consults the rotation policy once, before its append:
\* it performs at most one rollover; when the calendar check asks for one the
\* byte budget is not charged; when it does not and the sink has a budget, the
\* budget is charged with the record's length and a rollover follows exactly
\* when the budget went below zero; the record is appended only after the
\* rollover, and the append itself never rolls over. A sink on a standard
\* stream never rolls over.
C17_RotationOncePerWrite == []C17_NoneOnStd /\ [][C17_Enter /\ C17_Append]_vars

\* an hourly sink with a byte budget rolled over for the calendar without
\* charging the budget, and the record was then appended to the new file
C17_Witness ==
    /\ cfg.RotateCycle = CycleHourly /\ cfg.RotateBytes > 0 /\ ~IsStd(cfg)
    /\ rollCount = 1 /\ reopenFails = 0 /\ Len(rotated) = 1
    /\ charged = 0
    /\ lgr.rotateRemain = cfg.RotateBytes
    /\ appended = {1} /\ pc["p1"] = "idle"
    /\ prev.hour # lgr.rotateHour
    /\ Msgs(Dest) = {1}

\* --------------------------------------------------------------------- C18
\* who holds record object i: a thread (a producer formatting or writing it,
\* the daemon writing it), a slot of the queue, the pool
Owners(i) ==
    {<<"thread", t>> : t \in {u \in Threads : cur[u] # NoRec /\ cur[u].id = i}}
      \cup {<<"queue", k>> : k \in {j \in 1..Len(discard) : discard[j].id = i}}
      \cup {<<"pool", r.cap>> : r \in {q \in pool : q.id = i}}

\* the same in the next state
OwnersNext(i) ==
    {<<"thread", t>> : t \in {u \in Threads : cur'[u] # NoRec /\ cur'[u].id = i}}
      \cup {<<"queue", k>> : k \in {j \in 1..Len(discard') : discard'[j].id = i}}
      \cup {<<"pool", r.cap>> : r \in {q \in pool' : q.id = i}}

C18_Exclusive == \A i \in 1..nextId : Cardinality(Owners(i)) <= 1
\* writer.Write was called on the bytes of message m: they were appended, or
\* the write failed
Written(m) == m \in appended \cup failed
\* a panic is unwinding the daemon's WriteDirect
Unwinding(t) == t = Daemon /\ pc[t] = "wd_unwind"

\* a release of the record comes after writer.Write was called on its bytes
C18_AfterWrite == \A t \in Threads : PutStep(t) => Written(cur[t].msg)
\* the same, or a panic unwinds the daemon's WriteDirect, and then the bytes
\* of the record are nowhere in the destination
C18_AfterWriteOrPanic ==
    \A t \in Threads :
        PutStep(t) =>
            IF Unwinding(t)
            THEN ~Written(cur[t].msg) /\ cur[t].msg \notin Msgs(Dest) /\ faults > 0
            ELSE Written(cur[t].msg)
\* WriteDirect ends, by its return or by a recovered panic
C18_Release ==
    /\ \A t \in Threads :
         /\ PutStep(t) =>
               /\ pool' = IF cur[t].cap < Threshold(cfg)
                          THEN pool \cup {[id |-> cur[t].id, cap |-> cur[t].cap]}
                          ELSE pool
               /\ cur'[t] = NoRec
         /\ (EnterStep(t) \/ AppendStep(t)) => pool' = pool /\ cur'[t] = cur[t]
         /\ AppendStep(t) => (cur[t].msg \in appended' \/ errs' = errs + 1)
    /\ \A r \in pool' \ pool :
         \E t \in Threads : PutStep(t) /\ cur[t].id = r.id
C18_Drop ==
    \A p \in Producers :
        (DiscardStep(p) /\ DiscardMode /\ cur[p].msg \in dropped') =>
            /\ pool' = pool
            /\ OwnersNext(cur[p].id) = {}
C18_Acquire ==
    \A p \in Producers :
        (pc[p] = "idle" /\ pc'[p] = "write") =>
            LET i == cur'[p].id
            IN /\ Owners(i) \subseteq {<<"pool", r.cap>> : r \in pool}
               /\ OwnersNext(i) = {<<"thread", p>>}

\* C18 as stated: every record object has at most one holder among the
\* threads, the queue and the pool; an object enters the pool only at the end
\* of the WriteDirect that consumed it, once, and only after writer.Write was
\* called on its bytes (with or without error); an object dropped on a full
\* queue has no holder afterwards; and an acquire returns an object nobody but
\* the pool held.
C18_AsStated ==
    [](C18_Exclusive /\ C12_Fresh)
      /\ [][C18_AfterWrite /\ C18_Release /\ C18_Drop /\ C18_Acquire]_vars

\* C18 amended: as above, but an object also enters the pool, once, when a
\* panic unwinds the daemon's WriteDirect before the write; its bytes were
\* then never appended.
C18_ExclusiveOwnership ==
    [](C18_Exclusive /\ C12_Fresh)
      /\ [][C18_AfterWriteOrPanic /\ C18_Release /\ C18_Drop /\ C18_Acquire]_vars

\* a record was dropped on the full queue, the daemon's write of another was
\* unwound by a panic and released it unwritten, and a third went through the
\* daemon's write into the pool
C18_Witness ==
    /\ DiscardMode
    /\ dropped # {}
    /\ faults > 0
    /\ cur[Daemon] = NoRec /\ pc[Daemon] = "select"
    /\ \E m \in handed : ~Written(m)
    /\ \E m \in handed : m \in appended
    /\ pool # {}

\* --------------------------------------------------------------------- C19
\* C19 as stated: on a file sink with size rotation only whose handle is in
\* order (no failed reopen, no Close), the bytes appended to the active file
\* since its creation never exceed RotateBytes, and when no write is in
\* progress and the budget is not negative, those bytes and the budget add up
\* to RotateBytes.
C19_ActiveFileBound ==
    (SizeOnly /\ Healthy) =>
        /\ ActiveBytes <= cfg.RotateBytes
        /\ (~InFlight /\ lgr.rotateRemain >= 0) =>
              ActiveBytes + lgr.rotateRemain = cfg.RotateBytes

\* --------------------------------------------------------------------- C20
CloseFileStep == closer = "cl_file" /\ closer' = "closed"
FlushStep(t) == pc[t] = "fl_lock" /\ pc'[t] = Home(t) /\ faults' = faults

C20_AllPresent ==
    (~IsStd(cfg) /\ closer = "closed" /\ pc[Daemon] = "done"
       /\ faults = 0 /\ reopenFails = 0) =>
        accepted \subseteq Flushed
C20_CloseAfterDrain ==
    (CloseFileStep /\ ~IsStd(cfg)) =>
        discard = <<>> /\ cur[Daemon] = NoRec /\ writer.buf = <<>>
C20_OpenHandle ==
    \A t \in Threads :
        ((AppendStep(t) \/ FlushStep(t)) /\ ~IsStd(cfg) /\ reopenFails = 0) => fdOpen

\* C20 as stated: on a file sink without daemon fault or failed reopen, once
\* Close has returned and the daemon has terminated every record the queue
\* accepted is in the rotated files or the active file; Close closes the
\* handle only when the queue is empty, the daemon holds no record and the
\* buffered writer is empty; and no write or flush runs on a closed handle.
C20_NoLossOnClose ==
    []C20_AllPresent /\ [][C20_CloseAfterDrain /\ C20_OpenHandle]_vars

====
